---- MODULE Spec2Model ----
(***************************************************************************)
(* Model of squaremap_combine: the geometry types of geo.py (Rect, Grid),   *)
(* the stitching pipeline of core.Combiner.combine, the earlier pipeline   *)
(* of combine_core.Combiner.combine and the confirmation dialog of         *)
(* gui/actions.py.                                                         *)
(*                                                                         *)
(* Spec is one Combiner taking combine calls one after the other.  GeoSpec *)
(* applies the operations of Rect, Grid and Color to inputs drawn from     *)
(* bounded sets.  CoreSpec is one combine_core.Combiner taking calls.      *)
(* DialogSpec is a worker thread in open_confirm_dialog and the GUI thread *)
(* running the button callback; FairDialogSpec adds the fairness of the    *)
(* two threads.                                                            *)
(*                                                                         *)
(* A raster is modelled by its size and the set of rectangles painted on   *)
(* it (tile content and overlay lines), each clipped to the raster, which  *)
(* is what alpha_composite, ImageDraw.line, crop and getbbox observe of    *)
(* an RGBA image over a clear background.                                  *)
(*                                                                         *)
(* Python floats: Grid.project and Grid.map divide and multiply in IEEE    *)
(* doubles and then truncate or round.  The roundings of the doubles are   *)
(* followed with integer arithmetic (FloatDev), so the results are those   *)
(* of the doubles also where they differ from the exact rational ones.     *)
(***************************************************************************)
EXTENDS Integers, Sequences, FiniteSets, TLC

VARIABLES
    self,         \* the Combiner: [tiles_dir, grid_step, style, confirm]
    args,         \* the caller's arguments of the running call: [world, tile_ext, grid_step, style, area]
    files,        \* the entries of {world}/{zoom} as the scan saw them
    ops,          \* the steps of the running call that touched map_img, in the order they ran
    geo,          \* GeoSpec: [op, in, out], the operation applied, its input and its result
    pc,           \* position inside Combiner.combine: idle, validate, scan, grid, place, overlay, areacrop, crop, done, error
    tiles,        \* the tile map keys: (col, row) of every file found in {world}/{zoom}
    content,      \* what the tile files hold: "full" (opaque) or "inner" (opaque box inside a clear margin)
    zoom,         \* combine(zoom=...)
    area,         \* combine(area=...): <<>> for None, else <<x1, y1, x2, y2>>
    crop,         \* combine(crop=...): [kind |-> "none" | "auto" | "size", w, h]
    grid_step,    \* the overlay step in blocks
    line_alpha,   \* style.grid_line_color.alpha
    tile_grid,    \* local tile_grid
    world_grid,   \* local world_grid
    canvas_grid,  \* local canvas_grid
    img,          \* local map_img
    placed,       \* the alpha_composite calls made: <<tile index, canvas position>>
    lines,        \* the draw.line calls made: <<"v", column>> or <<"h", row>>
    error,        \* the exception combine raised, "" when none
    cc,           \* CoreSpec: the combine_core.Combiner call, see CcIdle
    gui           \* DialogSpec: the dialog, the event and the two threads, see GuiStart

vars == <<self, args, files, ops, geo, pc, tiles, content, zoom, area, crop, grid_step, line_alpha,
          tile_grid, world_grid, canvas_grid, img, placed, lines, error, cc, gui>>

\* the variables of the core.Combiner run
CombinerVars ==
    <<self, args, files, ops, pc, tiles, content, zoom, area, crop, grid_step, line_alpha,
      tile_grid, world_grid, canvas_grid, img, placed, lines, error>>

----------------------------------------------------------------------------
(* Bounds of the model *)

\* tile files have columns -1..MaxCol, in at most MaxCols distinct columns, and rows -1..0
MaxCol == 2
MaxCols == 2

TileCols == (0 - 1)..MaxCol
TileRows == {0 - 1, 0}

\* the directories: every product of a set of columns and a set of rows (the empty directory included)
TileSets == {cs \X rs : cs \in {c \in SUBSET TileCols : Cardinality(c) <= MaxCols}, rs \in SUBSET TileRows}

Zooms == 0..3

\* spans of world blocks an area is built from, per axis
AreaSpans == {<<0 - 600, 0 - 256>>, <<0 - 256, 256>>, <<256, 1100>>, <<1100, 1700>>}

Areas == {<<>>} \cup {<<sx[1], sy[1], sx[2], sy[2]>> : sx \in AreaSpans, sy \in AreaSpans}

NoCrop == [kind |-> "none", w |-> 0, h |-> 0]
AutoCrop == [kind |-> "auto", w |-> 0, h |-> 0]
Crops == {NoCrop, AutoCrop, [kind |-> "size", w |-> 500, h |-> 300]}

\* <<grid_step, style>> as passed to combine: <<>> is None, <<n>> a grid step, <<a>> the style
\* dict {'grid_line_color': a colour of alpha a}
Overlays == {<<<<0>>, <<>>>>, <<<<500>>, <<>>>>, <<<<>>, <<>>>>, <<<<>>, <<0>>>>}

\* <<crop, overlay>>: every overlay without a crop, 'auto' without an overlay and with the
\* Combiner's own, a fixed size without an overlay
CropOverlays ==
    {<<NoCrop, ov>> : ov \in Overlays}
    \cup {<<AutoCrop, <<<<0>>, <<>>>>>>, <<AutoCrop, <<<<>>, <<>>>>>>}
    \cup {<<cr, <<<<0>>, <<>>>>>> : cr \in Crops \ {NoCrop, AutoCrop}}

Contents == {"full", "inner"}

\* paths are sequences of path components
TilesDir == <<"tiles">>
OverworldDir == <<"tiles", "minecraft_overworld">>
NetherDir == <<"tiles", "minecraft_the_nether">>
BackupEndDir == <<"backup", "minecraft_the_end">>

\* the directories that exist
ExistingDirs == {TilesDir, OverworldDir, NetherDir, BackupEndDir}

\* the world argument: a str (is_path FALSE) or a Path (is_path TRUE)
Overworld == [is_path |-> FALSE, parts |-> <<"minecraft_overworld">>]
OtherWorlds ==
    {[is_path |-> FALSE, parts |-> <<"minecraft_the_nether">>],
     [is_path |-> FALSE, parts |-> <<"minecraft_missing">>],
     [is_path |-> TRUE, parts |-> BackupEndDir],
     [is_path |-> TRUE, parts |-> <<"minecraft_overworld">>]}

TileExts == {"*", "png"}

\* the arguments of a call: on the overworld every zoom and area with every pair of
\* CropOverlays, and each other world and tile extension with the remaining arguments at
\* their defaults
CallArgs ==
    {[world |-> Overworld, tile_ext |-> "*", zoom |-> z, area |-> a, crop |-> co[1],
      grid_step |-> co[2][1], style |-> co[2][2]] :
        z \in Zooms, a \in Areas, co \in CropOverlays}
    \cup
    {[world |-> w, tile_ext |-> e, zoom |-> 3, area |-> <<>>, crop |-> NoCrop,
      grid_step |-> <<>>, style |-> <<>>] :
        w \in OtherWorlds, e \in TileExts}

NoArgs ==
    [world |-> Overworld, tile_ext |-> "*", zoom |-> 3, area |-> <<>>, crop |-> NoCrop,
     grid_step |-> <<>>, style |-> <<>>]

----------------------------------------------------------------------------
(* const.py *)

SQMAP_TILE_SIZE == 512
SQMAP_TILE_BLOCKS == 512

SQMAP_ZOOM_BPP(z) == CASE z = 0 -> 8 [] z = 1 -> 4 [] z = 2 -> 2 [] z = 3 -> 1

----------------------------------------------------------------------------
(* Python arithmetic *)

Min(a, b) == IF a <= b THEN a ELSE b
Max(a, b) == IF a >= b THEN a ELSE b

\* a // b for b > 0: rounds toward minus infinity
FloorDiv(a, b) == IF a >= 0 THEN a \div b ELSE 0 - (((0 - a) + b - 1) \div b)

\* a % b for b > 0: the sign of the divisor
PyMod(a, b) == a - b * FloorDiv(a, b)

\* math.ceil(a / b) for b > 0
CeilDiv(a, b) == 0 - FloorDiv(0 - a, b)

\* int(a / b) for b > 0: rounds toward zero
TruncDiv(a, b) == IF a >= 0 THEN a \div b ELSE 0 - ((0 - a) \div b)

\* round(a / b) for b > 0: to nearest, ties to even
RoundDiv(a, b) ==
    LET q == FloorDiv(a, b)
        r == a - q * b
    IN  IF 2 * r < b THEN q
        ELSE IF 2 * r > b THEN q + 1
        ELSE IF PyMod(q, 2) = 0 THEN q ELSE q + 1

Abs(n) == IF n < 0 THEN 0 - n ELSE n
Sgn(n) == IF n > 0 THEN 1 ELSE IF n < 0 THEN 0 - 1 ELSE 0

----------------------------------------------------------------------------
(* Python floats (IEEE 754 doubles, 53-bit significands, round to nearest, ties to  *)
(* even) for the one expression the code evaluates in floats:                       *)
(*     wb * (n / wa) + b1        with integers n, wa > 0, wb, b1                    *)
(* (geo.py 463-474 and 535-538).  Each of the three operations rounds once.  The     *)
(* operators below follow the roundings with integer arithmetic; the magnitudes     *)
(* stay below 2^15, so every intermediate product fits a 32-bit integer.             *)

\* floor(log2(N / D)) for N, D > 0
RECURSIVE FloorLog2(_, _)
FloorLog2(N, D) ==
    IF N < D THEN FloorLog2(2 * N, D) - 1
    ELSE IF N >= 2 * D THEN FloorLog2(N, 2 * D) + 1
    ELSE 0

\* 2^e mod w
RECURSIVE Pow2Mod(_, _)
Pow2Mod(e, w) ==
    IF e = 0 THEN 1 % w
    ELSE IF e % 2 = 0 THEN LET h == Pow2Mod(e \div 2, w) IN (h * h) % w
    ELSE (2 * Pow2Mod(e - 1, w)) % w

\* N / D = 2^e
IsPow2(N, D, e) == IF e >= 0 THEN N = D * 2^e ELSE N * 2^(0 - e) = D

\* The sign of  float(wb * (n / wa) + b1) - (wb * n / wa + b1)  when the exact value is
\* an integer or a half-integer (the only values at which the deviation changes int()
\* or round()).  The quotient n / wa is rounded to m / 2^s with 2^52 <= m < 2^53 and
\* leaves the remainder r == m * wa - n * 2^s; the product deviates from the exact
\* value by j units in the last place; the sum keeps the deviation unless it is
\* within half a unit in the last place of the sum.
FloatDev(n, wa, wb, b1) ==
    IF n = 0 \/ wb = 0 THEN 0
    ELSE LET sg  == Sgn(n) * Sgn(wb)
             a   == Abs(n)
             B   == Abs(wb)
             f   == FloorLog2(a, wa)
             rho == ((a % wa) * Pow2Mod(52 - f, wa)) % wa
             r   == IF 2 * rho < wa THEN 0 - rho ELSE wa - rho
             e   == FloorLog2(B * a, wa)
             c   == IF r < 0 /\ IsPow2(B * a, wa, e) THEN 2 ELSE 1
             j   == RoundDiv(B * Abs(r) * c, wa * 2^(e - f))
             d   == sg * Sgn(r)
             KN  == sg * B * a + b1 * wa
             eK  == FloorLog2(Abs(KN), wa)
             cK  == IF d # Sgn(KN) /\ IsPow2(Abs(KN), wa, eK) THEN 2 ELSE 1
             m   == Min(e, eK)
         IN  IF rho = 0 THEN 0
             ELSE IF j = 0 THEN 0
             ELSE IF KN = 0 THEN d
             ELSE IF j * 2 * cK * 2^(e - m) <= c * 2^(eK - m) THEN 0
             ELSE d

\* int(wb * (n / wa) + b1): truncation toward zero of the float
FloatInt(n, wa, wb, b1) ==
    LET num == wb * n + b1 * wa
    IN  IF PyMod(num, wa) # 0 THEN TruncDiv(num, wa)
        ELSE LET K == FloorDiv(num, wa)
                 d == FloatDev(n, wa, wb, b1)
             IN  IF d # 0 /\ K # 0 /\ d # Sgn(K) THEN K - Sgn(K) ELSE K

\* round(wb * (n / wa) + b1): to nearest, ties to even, of the float
FloatRound(n, wa, wb, b1) ==
    LET num == wb * n + b1 * wa
    IN  IF PyMod(2 * num, wa) = 0 /\ PyMod(num, wa) # 0
        THEN LET d == FloatDev(n, wa, wb, b1)
             IN  IF d < 0 THEN FloorDiv(num, wa)
                 ELSE IF d > 0 THEN FloorDiv(num, wa) + 1
                 ELSE RoundDiv(num, wa)
        ELSE RoundDiv(num, wa)

\* tuple(range(a, b, s)) for s > 0
Range(a, b, s) ==
    LET n == IF b <= a THEN 0 ELSE ((b - a - 1) \div s) + 1
    IN  [i \in 1..n |-> a + (i - 1) * s]

\* seq[1:]
Slice1(seq) == IF Len(seq) = 0 THEN <<>> ELSE Tail(seq)

SeqSet(seq) == {seq[i] : i \in 1..Len(seq)}

----------------------------------------------------------------------------
(* File names: a name is a sequence of one-character strings *)

DigitChars == <<"0", "1", "2", "3", "4", "5", "6", "7", "8", "9">>

IsDigit(ch) == \E i \in 1..Len(DigitChars) : DigitChars[i] = ch

DigitVal(ch) == (CHOOSE i \in 1..Len(DigitChars) : DigitChars[i] = ch) - 1

\* str(n) for n >= 0
RECURSIVE NatChars(_)
NatChars(n) ==
    IF n < Len(DigitChars) THEN <<DigitChars[n + 1]>>
    ELSE NatChars(n \div Len(DigitChars)) \o <<DigitChars[(n % Len(DigitChars)) + 1]>>

\* str(n)
IntChars(n) == IF n < 0 THEN <<"-">> \o NatChars(0 - n) ELSE NatChars(n)

\* the name squaremap gives the tile (col, row): "{col}_{row}"
TileStem(t) == IntChars(t[1]) \o <<"_">> \o IntChars(t[2])

\* the value of the digits s[i..j]
RECURSIVE DigitsVal(_, _, _)
DigitsVal(s, i, j) ==
    IF j < i THEN 0 ELSE DigitsVal(s, i, j - 1) * Len(DigitChars) + DigitVal(s[j])

\* int(s[i..j]) for a text matched by -?\d+
PyInt(s, i, j) == IF s[i] = "-" THEN 0 - DigitsVal(s, i + 1, j) ELSE DigitsVal(s, i, j)

\* the last index of the longest run of digits that starts at j, 0 when s[j] is no digit
DigitRunEnd(s, j) ==
    IF j > Len(s) \/ ~IsDigit(s[j]) THEN 0
    ELSE CHOOSE k \in j..Len(s) :
            /\ \A m \in j..k : IsDigit(s[m])
            /\ k = Len(s) \/ ~IsDigit(s[k + 1])

\* the last index of the match of -?\d+ that starts at i, 0 when there is none
NumberEnd(s, i) ==
    IF i <= Len(s) /\ s[i] = "-" THEN DigitRunEnd(s, i + 1) ELSE DigitRunEnd(s, i)

\* the groups of the match of (-?\d+)_(-?\d+) that starts at i, <<>> when there is none
MatchAt(s, i) ==
    LET e1 == NumberEnd(s, i)
    IN  IF e1 = 0 \/ e1 + 1 > Len(s) THEN <<>>
        ELSE IF s[e1 + 1] # "_" THEN <<>>
        ELSE LET e2 == NumberEnd(s, e1 + 2)
             IN  IF e2 = 0 THEN <<>> ELSE <<PyInt(s, i, e1), PyInt(s, e1 + 2, e2)>>

\* SQMAP_TILE_NAME_REGEX.findall(stem): the first match as (col, row), <<>> when the list is empty
FirstMatch(stem) ==
    LET starts == {i \in 1..Len(stem) : MatchAt(stem, i) # <<>>}
    IN  IF starts = {} THEN <<>>
        ELSE MatchAt(stem, CHOOSE i \in starts : \A j \in starts : i <= j)

\* a directory entry: Path.stem, Path.suffix without its dot and whether it is a regular
\* file.  The suffix is "" when the name has no dot, ends with its last dot or has its
\* only dot in front (the stem is then the whole name).
Entry(stem, suffix, is_file) == [stem |-> stem, suffix |-> suffix, is_file |-> is_file]

\* the characters of the extensions in use
Chars(ext) ==
    CASE ext = "png" -> <<"p", "n", "g">>
      [] ext = "jpg" -> <<"j", "p", "g">>
      [] ext = "txt" -> <<"t", "x", "t">>
      [] ext = "*" -> <<"*">>
      [] ext = "" -> <<>>

\* Path.name of an entry
EntryName(e) == IF e.suffix = "" THEN e.stem ELSE e.stem \o <<".">> \o Chars(e.suffix)

EndsWith(name, tail) ==
    /\ Len(name) >= Len(tail)
    /\ \A i \in 1..Len(tail) : name[Len(name) - Len(tail) + i] = tail[i]

\* the name matches the pattern '*.' + tile_ext: '*.*' asks for a dot anywhere in the
\* name, '*.png' for a name that ends with '.png'
GlobMatch(name, tile_ext) ==
    IF tile_ext = "*" THEN \E i \in 1..Len(name) : name[i] = "."
    ELSE EndsWith(name, <<".">> \o Chars(tile_ext))

\* Path.glob('*.' + tile_ext) followed by the is_file() filter
Globbed(entries, tile_ext) ==
    {e \in entries : GlobMatch(EntryName(e), tile_ext) /\ e.is_file}

\* the tile files squaremap wrote for a set of tile indices
TileFiles(ts) == {Entry(TileStem(t), "png", TRUE) : t \in ts}

\* the directory listings of the nether: the tile 0_0 next to one other entry, and two
\* listings without any tile
StrayEntries ==
    {Entry(<<"m", "a", "p">>, "txt", TRUE),
     Entry(<<"o", "l", "d", "_">> \o TileStem(<<0 - 1, 0>>), "png", TRUE),
     Entry(TileStem(<<0 - 1, 0>>) \o <<"_", "2">>, "png", TRUE),
     Entry(TileStem(<<0 - 1, 0>>), "", TRUE),
     Entry(TileStem(<<0 - 1, 0>>) \o <<".">>, "", TRUE),
     Entry(<<".", "p", "n", "g">>, "", TRUE),
     Entry(TileStem(<<0 - 1, 0>>), "jpg", TRUE),
     Entry(TileStem(<<0 - 1, 0>>), "png", FALSE),
     Entry(TileStem(<<0, 0>>), "jpg", TRUE),
     Entry(TileStem(<<12, 0 - 10>>), "png", TRUE)}

StrayListings ==
    {TileFiles({<<0, 0>>}) \cup {e} : e \in StrayEntries}
    \cup {{Entry(<<"m", "a", "p">>, "txt", TRUE)}, {Entry(TileStem(<<0, 0>>), "png", FALSE)}}

\* what a scan of {world}/{zoom} can find, per world directory
DirListings(dir) ==
    IF dir = OverworldDir THEN {TileFiles(ts) : ts \in TileSets}
    ELSE IF dir = NetherDir THEN StrayListings
    ELSE IF dir = BackupEndDir THEN {TileFiles({<<0 - 1, 0 - 1>>, <<0, 0>>})}
    ELSE {{}}

----------------------------------------------------------------------------
(* util.snap_num *)

snap_num_ceil(num, mult) == mult * CeilDiv(num, mult)
snap_num_floor(num, mult) == mult * FloorDiv(num, mult)

----------------------------------------------------------------------------
(* geo.Rect: <<x1, y1, x2, y2>> *)

Rect_width(r) == r[3] - r[1]
Rect_height(r) == r[4] - r[2]
Rect_size(r) == <<Rect_width(r), Rect_height(r)>>

\* fn is a function on the integers
Rect_map(fn, r) == <<fn[r[1]], fn[r[2]], fn[r[3]], fn[r[4]]>>

Rect_resize(r, xy) == <<r[1], r[2], r[3] + xy[1], r[4] + xy[2]>>

Rect_translate_by(r, xy) == <<r[1] + xy[1], r[2] + xy[2], r[3] + xy[1], r[4] + xy[2]>>

Rect_translate_to(r, xy) == Rect_translate_by(r, <<xy[1] - r[1], xy[2] - r[2]>>)

\* Rect.center
Rect_center(r) == <<r[1] + FloorDiv(Rect_width(r), 2), r[2] + FloorDiv(Rect_height(r), 2)>>

\* Rect.from_radius with the radius check left out
Rect_from_radius_unchecked(radius, center) ==
    LET c == IF center = <<>> THEN <<0, 0>> ELSE center
    IN  [raises |-> "", rect |-> <<c[1] - radius, c[2] - radius, c[1] + radius, c[2] + radius>>]

\* Rect.from_radius for an integer radius; center <<>> is None.  The result is
\* [raises, rect]: the exception raised ("" when none) and the rect returned.
Rect_from_radius(radius, center) ==
    LET c == IF center = <<>> THEN <<0, 0>> ELSE center
    IN  IF radius <= 0 THEN [raises |-> "ValueError", rect |-> <<>>]
        ELSE [raises |-> "", rect |-> <<c[1] - radius, c[2] - radius, c[1] + radius, c[2] + radius>>]

Rect_from_size(width, height, center) ==
    <<center[1] - FloorDiv(width, 2),
      center[2] - FloorDiv(height, 2),
      center[1] + FloorDiv(width, 2) + PyMod(width, 2),
      center[2] + FloorDiv(height, 2) + PyMod(height, 2)>>

----------------------------------------------------------------------------
(* geo.Grid: [rect, step, origin] *)

Grid(rect, step, origin) == [rect |-> rect, step |-> step, origin |-> origin]

NoGrid == Grid(<<0, 0, 0, 0>>, 0, <<0, 0>>)

\* steps_x / steps_y on one axis: lo, hi the rect bounds, o the origin coordinate
Grid_steps(lo, hi, step, o) ==
    IF step = 0 THEN <<>>
    ELSE LET b0 == snap_num_ceil(lo, step) + o
             b1 == snap_num_floor(hi, step) + o
         IN  Range(b0, Min(o, b1) + 1, step) \o Slice1(Range(o, b1 + 1, step))

steps_x(g) == Grid_steps(g.rect[1], g.rect[3], g.step, g.origin[1])
steps_y(g) == Grid_steps(g.rect[2], g.rect[4], g.step, g.origin[2])

\* steps_count with the x steps counted twice
steps_count_xx(g) == Len(steps_x(g)) * Len(steps_x(g))

steps_count(g) == Len(steps_x(g)) * Len(steps_y(g))

\* itertools.product(steps_x, steps_y): all y for each x
iter_steps(g) ==
    LET sx == steps_x(g)
        sy == steps_y(g)
    IN  [k \in 1..(Len(sx) * Len(sy)) |->
            <<sx[((k - 1) \div Len(sy)) + 1], sy[((k - 1) % Len(sy)) + 1]>>]

\* Grid.from_steps raises ValueError for an empty sequence of steps
Grid_from_steps_raises(source_steps) == source_steps = {}

SetMin(S) == CHOOSE m \in S : \A n \in S : m <= n
SetMax(S) == CHOOSE m \in S : \A n \in S : m >= n

\* Grid.from_steps for a non-empty set of coordinates: the four bounds start at 0 and
\* every one of them is folded over coord[0]
Grid_from_steps(source_steps, step) ==
    LET c0 == {coord[1] : coord \in source_steps}
        x1 == Min(0, SetMin(c0))
        y1 == Min(0, SetMin(c0))
        x2 == Max(0, SetMax(c0))
        y2 == Max(0, SetMax(c0))
    IN  Grid(<<x1, y1, x2, y2>>, step, <<0, 0>>)

Grid_copy(g, step) == Grid(g.rect, step, <<0, 0>>)

\* Grid.map(fn) with origin=None divides by the rect's width and height
Grid_map_raises(g) == Rect_width(g.rect) = 0 \/ Rect_height(g.rect) = 0

\* Grid.map with the new origin left relative to the new top-left corner
Grid_map_rel(fn, g) ==
    LET r  == g.rect
        nr == Rect_map(fn, r)
    IN  Grid(nr, g.step,
             <<FloatRound(g.origin[1] - r[1], r[3] - r[1], nr[3] - nr[1], 0),
               FloatRound(g.origin[2] - r[2], r[4] - r[2], nr[4] - nr[2], 0)>>)

\* Grid.map(fn), origin=None: the origin is recomputed from its relative position
Grid_map(fn, g) ==
    LET r  == g.rect
        nr == Rect_map(fn, r)
    IN  Grid(nr, g.step,
             <<FloatRound(g.origin[1] - r[1], r[3] - r[1], nr[3] - nr[1], nr[1]),
               FloatRound(g.origin[2] - r[2], r[4] - r[2], nr[4] - nr[2], nr[2])>>)

\* Grid.map(fn, origin=...): origin is [mode, xy] with mode "none" for None, "keep" for
\* 'keep' and "given" for a coordinate, which is true in "if not origin" whatever its value
Grid_map_origin(fn, g, origin) ==
    IF origin.mode = "keep" THEN Grid(Rect_map(fn, g.rect), g.step, g.origin)
    ELSE IF origin.mode = "given" THEN Grid(Rect_map(fn, g.rect), g.step, origin.xy)
    ELSE Grid_map(fn, g)

Grid_resize(g, xy) == Grid(Rect_resize(g.rect, <<xy, xy>>), g.step, <<0, 0>>)

Grid_translate_to(g, xy) ==
    Grid(Rect_translate_to(g.rect, xy), g.step,
         <<g.origin[1] - (g.rect[1] - xy[1]), g.origin[2] - (g.rect[2] - xy[2])>>)

\* Grid.project on one axis: int(size_b * ((c - tl_a) / size_a) + tl_b)
ProjectAxis(c, a1, a2, b1, b2) == FloatInt(c - a1, a2 - a1, b2 - b1, b1)

Grid_project(g, coord, other) ==
    <<ProjectAxis(coord[1], g.rect[1], g.rect[3], other.rect[1], other.rect[3]),
      ProjectAxis(coord[2], g.rect[2], g.rect[4], other.rect[2], other.rect[4])>>

----------------------------------------------------------------------------
(* util.Color and helper.Color: <<red, green, blue, alpha>> *)

RGB_CHANNEL_MAX == 255

\* util.Color.__init__ raises ValueError when a channel is above RGB_CHANNEL_MAX
Color_raises(red, green, blue, alpha) ==
    \E channel \in {red, green, blue, alpha} : channel > RGB_CHANNEL_MAX

\* helper.Color.__init__ tests "0 >= channel > 255" one channel after the other
helper_Color_raises(red, green, blue, alpha) ==
    \/ (0 >= red /\ red > 255)
    \/ (0 >= green /\ green > 255)
    \/ (0 >= blue /\ blue > 255)
    \/ (0 >= alpha /\ alpha > 255)

\* the channels the constructor stores
Color(red, green, blue, alpha) == <<red, green, blue, alpha>>

----------------------------------------------------------------------------
(* PIL rasters: [size |-> <<w, h>>, paints |-> set of painted rectangles].          *)
(* A paint is [kind, x1, y1, x2, y2, c, r, ox, oy]: the pixels x1..x2-1, y1..y2-1,   *)
(* for a tile the index (c, r) of its file and the raster position (ox, oy) of the  *)
(* tile's own pixel (0, 0).                                                         *)

Paint(kind, x1, y1, x2, y2, c, r, ox, oy) ==
    [kind |-> kind, x1 |-> x1, y1 |-> y1, x2 |-> x2, y2 |-> y2, c |-> c, r |-> r, ox |-> ox, oy |-> oy]

\* the part of a paint inside a raster of the given size
Clip(p, size) ==
    [p EXCEPT !.x1 = Max(p.x1, 0), !.y1 = Max(p.y1, 0),
              !.x2 = Min(p.x2, size[1]), !.y2 = Min(p.y2, size[2])]

Visible(p) == p.x1 < p.x2 /\ p.y1 < p.y2

ClipAll(ps, size) == {q \in {Clip(p, size) : p \in ps} : Visible(q)}

\* Image.new('RGBA', size, color=clear)
Image_new(size) == [size |-> size, paints |-> {}]

NoImage == Image_new(<<0, 0>>)

\* the non-transparent box of a tile file, in the tile's own pixels
TileContent(kind) ==
    IF kind = "full" THEN <<0, 0, SQMAP_TILE_SIZE, SQMAP_TILE_SIZE>>
    ELSE <<128, 64, 384, 448>>

\* Image.open(tile_path) placed at dest
TilePaint(kind, idx, dest) ==
    LET b == TileContent(kind)
    IN  Paint("tile", dest[1] + b[1], dest[2] + b[2], dest[1] + b[3], dest[2] + b[4],
              idx[1], idx[2], dest[1], dest[2])

\* map_img.alpha_composite(tile, dest) for a set of tiles
Image_alpha_composite(im, ps) == [im EXCEPT !.paints = @ \cup ClipAll(ps, im.size)]

\* draw.line((x, 0, x, height)) and draw.line((0, y, width, y)) with width 1
VLine(im, x) == Paint("vline", x, 0, x + 1, im.size[2], 0, 0, 0, 0)
HLine(im, y) == Paint("hline", 0, y, im.size[1], y + 1, 0, 0, 0, 0)

\* Image.crop(box)
Image_crop(im, box) ==
    LET size == <<box[3] - box[1], box[4] - box[2]>>
        moved == {[p EXCEPT !.x1 = @ - box[1], !.x2 = @ - box[1], !.ox = @ - box[1],
                            !.y1 = @ - box[2], !.y2 = @ - box[2], !.oy = @ - box[2]] : p \in im.paints}
    IN  [size |-> size, paints |-> ClipAll(moved, size)]

\* getbbox() that reports the whole raster as soon as anything is painted
Image_getbbox_whole(im) ==
    IF im.paints = {} THEN <<>> ELSE <<0, 0, im.size[1], im.size[2]>>

\* Image.getbbox(): <<>> for None
Image_getbbox(im) ==
    IF im.paints = {} THEN <<>>
    ELSE <<SetMin({p.x1 : p \in im.paints}), SetMin({p.y1 : p \in im.paints}),
           SetMax({p.x2 : p \in im.paints}), SetMax({p.y2 : p \in im.paints})>>

----------------------------------------------------------------------------
(* core.Combiner.combine *)

TileBlocks(z) == SQMAP_TILE_BLOCKS * SQMAP_ZOOM_BPP(z)

\* the tile grid, with the expansion of a (0, 0)-sized rect
TileGridOf(ts, ar, z) ==
    LET g == IF ar # <<>>
             THEN Grid(Rect_map([n \in Int |-> FloorDiv(n, TileBlocks(z))], ar), 1, <<0, 0>>)
             ELSE Grid_from_steps(ts, 1)
    IN  IF Rect_size(g.rect) = <<0, 0>>
        THEN [g EXCEPT !.rect = <<g.rect[1], g.rect[2], g.rect[3] + 1, g.rect[4] + 1>>]
        ELSE g

WorldGridOf(tg, z, step) ==
    Grid_copy(Grid_resize(Grid_map([n \in Int |-> n * TileBlocks(z)], tg), TileBlocks(z)), step)

CanvasGridOf(tg) ==
    Grid_copy(Grid_resize(Grid_map([n \in Int |-> n * SQMAP_TILE_SIZE], Grid_translate_to(tg, <<0, 0>>)),
                          SQMAP_TILE_SIZE),
              SQMAP_TILE_SIZE)

\* the two sequences zipped by the placement loop
RegionSteps(tg) == iter_steps(tg)
ImgCoordSteps(cg) == iter_steps(Grid_resize(cg, 0 - SQMAP_TILE_SIZE))

\* the pairs the loop body runs on before zip(strict=True) ends or raises
PlacedPairs(tg, cg, ts) ==
    LET rs == RegionSteps(tg)
        cs == ImgCoordSteps(cg)
    IN  {<<rs[k], cs[k]>> : k \in {i \in 1..Min(Len(rs), Len(cs)) : rs[i] \in ts}}

ZipRaises(tg, cg) == Len(RegionSteps(tg)) # Len(ImgCoordSteps(cg))

\* _draw_grid_overlay: the canvas coordinate world_grid.project(world_coord, canvas_grid)
\* of every world-grid step; project works on each axis by itself, so the set over
\* steps_x \X steps_y is the product of the projected columns and the projected rows
OverlayCoords(wg, cg) ==
    {ProjectAxis(x, wg.rect[1], wg.rect[3], cg.rect[1], cg.rect[3]) : x \in SeqSet(steps_x(wg))}
    \X {ProjectAxis(y, wg.rect[2], wg.rect[4], cg.rect[2], cg.rect[4]) : y \in SeqSet(steps_y(wg))}

OverlayLines(wg, cg, alpha) ==
    IF wg.step # 0 /\ alpha > 0
    THEN LET coords == OverlayCoords(wg, cg)
         IN  {<<"v", p[1]>> : p \in coords} \cup {<<"h", p[2]>> : p \in coords}
    ELSE {}

\* the box of the crop to the requested area
AreaCropBox(ar, wg, cg, z) ==
    LET b == SQMAP_ZOOM_BPP(z)
    IN  <<cg.rect[1] + FloorDiv(ar[1] - wg.rect[1], b),
          cg.rect[2] + FloorDiv(ar[2] - wg.rect[2], b),
          cg.rect[3] + FloorDiv(ar[3] - wg.rect[3], b),
          cg.rect[4] + FloorDiv(ar[4] - wg.rect[4], b)>>

----------------------------------------------------------------------------
(* The state machine *)

\* CoreSpec's and DialogSpec's variables while the Combiner runs
NoCc == [pc |-> "off"]
NoGui == [worker |-> "off"]

\* GeoSpec's variable while the Combiner runs
NoGeo == [op |-> "", in |-> <<>>, out |-> <<>>]

\* Combiner(tiles_dir, grid_step=512): the default style and confirm callback
NewCombiner ==
    [tiles_dir |-> TilesDir, grid_step |-> 512, style |-> [grid_line_alpha |-> 255],
     confirm |-> "always_true"]

Init ==
    /\ self = NewCombiner
    /\ args = NoArgs
    /\ files = {}
    /\ ops = <<>>
    /\ geo = NoGeo
    /\ pc = "idle"
    /\ tiles = {}
    /\ content = "full"
    /\ zoom = 3
    /\ area = <<>>
    /\ crop = NoCrop
    /\ grid_step = 0
    /\ line_alpha = 255
    /\ tile_grid = NoGrid
    /\ world_grid = NoGrid
    /\ canvas_grid = NoGrid
    /\ img = NoImage
    /\ placed = {}
    /\ lines = {}
    /\ error = ""
    /\ cc = NoCc
    /\ gui = NoGui

\* a call of combine(world, zoom=..., area=..., crop=..., tile_ext=..., grid_step=..., style=...)
Call ==
    /\ pc = "idle"
    /\ \E a \in CallArgs :
        /\ args' = a
        /\ zoom' = a.zoom
        /\ area' = a.area
        /\ crop' = a.crop
    /\ pc' = "validate"
    /\ UNCHANGED <<self, files, ops, geo, cc, gui, tiles, content, grid_step, line_alpha,
                   tile_grid, world_grid, canvas_grid, img, placed, lines, error>>

Raise(e) == pc' = "error" /\ error' = e

\* the world directory with tiles_dir joined to a Path as well
WorldPath_joined(world) == self.tiles_dir \o world.parts

\* core.py 263-264: a str is joined to tiles_dir, a Path is used as it is
WorldPath(world) == IF world.is_path THEN world.parts ELSE self.tiles_dir \o world.parts

\* core.py 273: the grid step of this call
GridStepOf(a) == IF a.grid_step # <<>> THEN a.grid_step[1] ELSE self.grid_step

\* core.py 275-277: the grid-line alpha of the style of this call
LineAlphaOf(a) == IF a.style # <<>> THEN a.style[1] ELSE self.style.grid_line_alpha

\* the entry of combine with the overrides written to the Combiner
Validate_store ==
    /\ pc = "validate"
    /\ IF WorldPath(args.world) \notin ExistingDirs
       THEN /\ Raise("NotADirectoryError")
            /\ UNCHANGED <<self, grid_step, line_alpha>>
       ELSE /\ grid_step' = GridStepOf(args)
            /\ line_alpha' = LineAlphaOf(args)
            /\ self' = [self EXCEPT !.grid_step = GridStepOf(args),
                                    !.style = [grid_line_alpha |-> LineAlphaOf(args)]]
            /\ pc' = "scan"
            /\ UNCHANGED error
    /\ UNCHANGED <<args, files, ops, geo, cc, gui, tiles, content, zoom, area, crop,
                   tile_grid, world_grid, canvas_grid, img, placed, lines>>

\* core.py 263-280: the world directory is checked, then the overrides of grid_step and
\* style are resolved into locals
Validate ==
    /\ pc = "validate"
    /\ IF WorldPath(args.world) \notin ExistingDirs
       THEN /\ Raise("NotADirectoryError")
            /\ UNCHANGED <<grid_step, line_alpha>>
       ELSE /\ grid_step' = GridStepOf(args)
            /\ line_alpha' = LineAlphaOf(args)
            /\ pc' = "scan"
            /\ UNCHANGED error
    /\ UNCHANGED <<self, args, files, ops, geo, cc, gui, tiles, content, zoom, area, crop,
                   tile_grid, world_grid, canvas_grid, img, placed, lines>>

\* core.py 287-294: the scan of the tile files.  findall(stem)[0] raises IndexError on a
\* stem without a match, while the dict is being built.
Scan ==
    /\ pc = "scan"
    /\ \E fs \in DirListings(WorldPath(args.world)), k \in Contents :
        LET found == Globbed(fs, args.tile_ext)
        IN  /\ files' = fs
            /\ IF \E e \in found : FirstMatch(e.stem) = <<>>
               THEN Raise("IndexError") /\ UNCHANGED <<tiles, content>>
               ELSE IF found = {}
               THEN Raise("CombineError") /\ UNCHANGED <<tiles, content>>
               ELSE /\ tiles' = {FirstMatch(e.stem) : e \in found}
                    /\ content' = k
                    /\ pc' = "grid"
                    /\ UNCHANGED error
    /\ UNCHANGED <<self, args, ops, geo, cc, gui, zoom, area, crop, grid_step, line_alpha,
                   tile_grid, world_grid, canvas_grid, img, placed, lines>>

\* core.py 296-324: the three grids and the canvas
DeriveGrids ==
    /\ pc = "grid"
    /\ LET tg == TileGridOf(tiles, area, zoom)
       IN  /\ tile_grid' = tg
           /\ IF Grid_map_raises(tg)
              THEN /\ Raise("ZeroDivisionError")
                   /\ UNCHANGED <<world_grid, canvas_grid, img>>
              ELSE /\ world_grid' = WorldGridOf(tg, zoom, grid_step)
                   /\ canvas_grid' = CanvasGridOf(tg)
                   /\ img' = Image_new(Rect_size(CanvasGridOf(tg).rect))
                   /\ pc' = "place"
                   /\ UNCHANGED error
    /\ UNCHANGED <<self, args, files, ops, geo, cc, gui, tiles, content, zoom, area, crop, grid_step, line_alpha,
                   placed, lines>>

\* core.py 329-341: the placement loop
PlaceTiles ==
    /\ pc = "place"
    /\ placed' = PlacedPairs(tile_grid, canvas_grid, tiles)
    /\ img' = Image_alpha_composite(img, {TilePaint(content, pr[1], pr[2]) : pr \in placed'})
    /\ ops' = Append(ops, "place")
    /\ IF ZipRaises(tile_grid, canvas_grid) THEN Raise("ValueError") ELSE pc' = "overlay" /\ UNCHANGED error
    /\ UNCHANGED <<self, args, files, geo, cc, gui, tiles, content, zoom, area, crop, grid_step, line_alpha,
                   tile_grid, world_grid, canvas_grid, lines>>

\* core.py 343-350 and 153-206: the grid overlay
DrawOverlay ==
    /\ pc = "overlay"
    /\ lines' = OverlayLines(world_grid, canvas_grid, line_alpha)
    /\ img' = Image_alpha_composite(img,
                 {IF l[1] = "v" THEN VLine(img, l[2]) ELSE HLine(img, l[2]) : l \in lines'})
    /\ ops' = Append(ops, "overlay")
    /\ pc' = "areacrop"
    /\ UNCHANGED <<self, args, files, geo, cc, gui, tiles, content, zoom, area, crop, grid_step, line_alpha,
                   tile_grid, world_grid, canvas_grid, placed, error>>

\* the crop to the requested area made where the overlay should be drawn
AreaCrop_early ==
    /\ pc = "overlay"
    /\ img' = IF area # <<>> THEN Image_crop(img, AreaCropBox(area, world_grid, canvas_grid, zoom)) ELSE img
    /\ ops' = IF area # <<>> THEN Append(ops, "areacrop") ELSE ops
    /\ pc' = "crop"
    /\ UNCHANGED <<self, args, files, geo, cc, gui, tiles, content, zoom, area, crop, grid_step, line_alpha,
                   tile_grid, world_grid, canvas_grid, placed, lines, error>>

\* core.py 352-361: the crop to the requested area
AreaCrop ==
    /\ pc = "areacrop"
    /\ img' = IF area # <<>> THEN Image_crop(img, AreaCropBox(area, world_grid, canvas_grid, zoom)) ELSE img
    /\ ops' = IF area # <<>> THEN Append(ops, "areacrop") ELSE ops
    /\ pc' = "crop"
    /\ UNCHANGED <<self, args, files, geo, cc, gui, tiles, content, zoom, area, crop, grid_step, line_alpha,
                   tile_grid, world_grid, canvas_grid, placed, lines, error>>

\* the crop step without the test for a blank image: Maybe(None).unwrap() raises
FinalCrop_unwrap ==
    /\ pc = "crop"
    /\ IF crop.kind = "none"
       THEN pc' = "done" /\ UNCHANGED <<img, ops, error>>
       ELSE IF crop.kind = "auto" /\ Image_getbbox(img) = <<>>
       THEN Raise("ValueError") /\ UNCHANGED <<img, ops>>
       ELSE IF crop.kind = "auto"
       THEN /\ pc' = "done"
            /\ img' = Image_crop(img, Image_getbbox(img))
            /\ ops' = Append(ops, "crop")
            /\ UNCHANGED error
       ELSE Raise("TypeError") /\ UNCHANGED <<img, ops>>
    /\ UNCHANGED <<self, args, files, geo, cc, gui, tiles, content, zoom, area, crop, grid_step, line_alpha,
                   tile_grid, world_grid, canvas_grid, placed, lines>>

\* core.py 363-372: the crop to a physical size.  Rect.from_size(crop, center=...) binds the
\* size tuple to width and nothing to height, so the call raises TypeError.
FinalCrop ==
    /\ pc = "crop"
    /\ IF crop.kind = "none" \/ (crop.kind = "auto" /\ Image_getbbox(img) = <<>>)
       THEN pc' = "done" /\ UNCHANGED <<img, ops, error>>
       ELSE IF crop.kind = "auto"
       THEN /\ pc' = "done"
            /\ img' = Image_crop(img, Image_getbbox(img))
            /\ ops' = Append(ops, "crop")
            /\ UNCHANGED error
       ELSE Raise("TypeError") /\ UNCHANGED <<img, ops>>
    /\ UNCHANGED <<self, args, files, geo, cc, gui, tiles, content, zoom, area, crop, grid_step, line_alpha,
                   tile_grid, world_grid, canvas_grid, placed, lines>>

\* combine has returned or raised; the Combiner is ready for the next call
Return ==
    /\ pc \in {"done", "error"}
    /\ pc' = "idle"
    /\ args' = NoArgs
    /\ files' = {}
    /\ ops' = <<>>
    /\ UNCHANGED <<self, geo, cc, gui>>
    /\ tiles' = {}
    /\ content' = "full"
    /\ zoom' = 3
    /\ area' = <<>>
    /\ crop' = NoCrop
    /\ grid_step' = 0
    /\ line_alpha' = 255
    /\ tile_grid' = NoGrid
    /\ world_grid' = NoGrid
    /\ canvas_grid' = NoGrid
    /\ img' = NoImage
    /\ placed' = {}
    /\ lines' = {}
    /\ error' = ""

Next ==
    \/ Call
    \/ Validate
    \/ Scan
    \/ DeriveGrids
    \/ PlaceTiles
    \/ DrawOverlay
    \/ AreaCrop
    \/ FinalCrop
    \/ Return

Spec == Init /\ [][Next]_vars

----------------------------------------------------------------------------
(* combine_core.Combiner.combine *)

TILE_SIZE == 512

DETAIL_SBPP(detail) == CASE detail = 0 -> 8 [] detail = 1 -> 4 [] detail = 2 -> 2 [] detail = 3 -> 1

\* x, y of the paste area of region (c, r)
PasteCoord(c, r, column_range, row_range) ==
    <<TILE_SIZE * (c - column_range[1]), TILE_SIZE * (r - row_range[1])>>

\* game_zero_in_image as the first pasted region (c, r) sets it
GameZero(c, r, column_range, row_range) ==
    LET xy == PasteCoord(c, r, column_range, row_range)
    IN  <<xy[1] - c * TILE_SIZE, xy[2] - r * TILE_SIZE>>

\* GameCoord.to_image_coord: image.game_zero + (self // image.detail_mul)
GameCoord_to_image_coord(g, game_zero, detail_mul) ==
    <<game_zero[1] + FloorDiv(g[1], detail_mul), game_zero[2] + FloorDiv(g[2], detail_mul)>>

\* itertools.product(xs, ys) as a sequence: all of ys for each of xs
Product(xs, ys) ==
    [k \in 1..(Len(xs) * Len(ys)) |->
        <<xs[((k - 1) \div Len(ys)) + 1], ys[((k - 1) % Len(ys)) + 1]>>]

\* range(lo, hi + 1) of a <<lo, hi>> pair
RangeOf(span) == Range(span[1], span[2] + 1, 1)

\* area_regions: n // detail_mul, snapped down to a multiple of TILE_SIZE, // TILE_SIZE
AreaRegions(area_, detail_mul) ==
    [i \in 1..4 |-> FloorDiv(TILE_SIZE * FloorDiv(FloorDiv(area_[i], detail_mul), TILE_SIZE), TILE_SIZE)]

\* Combiner(tiles_dir, confirm=...): a tiles directory that holds minecraft_overworld
CcMappedWorlds == {"minecraft_overworld"}

\* the tiles found in {world}/{detail}, the areas and the callbacks of the calls:
\* confirm "default" is the parameter's default lambda, "yes" and "no" a callback of the
\* caller that returns True or False
CcTileSets == {{}, {<<0, 0>>}, {<<0 - 1, 0 - 1>>, <<0, 0>>}, {<<0, 0>>, <<1, 0>>}, {<<0 - 1, 0>>}}
CcAreas == {<<>>, <<0, 0, 600, 100>>, <<0 - 700, 0, 600, 100>>, <<2000, 2000, 2600, 2100>>}
CcCallbacks ==
    {[confirm |-> "default", skip_confirmation |-> FALSE], [confirm |-> "yes", skip_confirmation |-> FALSE],
     [confirm |-> "no", skip_confirmation |-> FALSE], [confirm |-> "no", skip_confirmation |-> TRUE]}

NoLast == [in |-> <<>>, result |-> <<>>, error |-> ""]

\* cc: pc the position inside combine; in the arguments and the Combiner's callback;
\* trace the calls made so far of the caller's callback <<"confirm", w, h>> (w x h the size
\* estimate of the message), of Image.new <<"new", w, h>> and of Image.open <<"open", c, r>>;
\* last the arguments and outcome of the latest call made with the default callback
CcIdle(last) ==
    [pc |-> "idle", in |-> <<>>, column_range |-> <<>>, row_range |-> <<>>, trace |-> <<>>,
     image |-> NoImage, game_zero |-> <<>>, result |-> <<>>, error |-> "", last |-> last]

\* the arguments that do not name the callback
CcArgs(in) == [world |-> in.world, detail |-> in.detail, tiles |-> in.tiles, area |-> in.area]

\* the callback the Combiner stored is one of the caller's
CcAsks(in) == in.confirm # "default" /\ ~in.skip_confirmation

\* self.confirmation_callback(message)
CcAnswer(in) == in.skip_confirmation \/ in.confirm \in {"default", "yes"}

CoreInit ==
    /\ self = NewCombiner
    /\ args = NoArgs
    /\ files = {}
    /\ ops = <<>>
    /\ geo = NoGeo
    /\ pc = "idle"
    /\ tiles = {}
    /\ content = "full"
    /\ zoom = 3
    /\ area = <<>>
    /\ crop = NoCrop
    /\ grid_step = 0
    /\ line_alpha = 255
    /\ tile_grid = NoGrid
    /\ world_grid = NoGrid
    /\ canvas_grid = NoGrid
    /\ img = NoImage
    /\ placed = {}
    /\ lines = {}
    /\ error = ""
    /\ cc = CcIdle(NoLast)
    /\ gui = NoGui

\* combine(world=..., detail=..., area=...) on a Combiner built with confirm=... and
\* skip_confirmation=...; autotrim, force_size, grid_interval and style are the defaults
CcCall ==
    /\ cc.pc = "idle"
    /\ \E w \in {"minecraft_overworld", "nowhere"}, d \in {1, 3, 7}, ts \in CcTileSets,
          ar \in CcAreas, cb \in CcCallbacks :
            cc' = [cc EXCEPT !.pc = "validate",
                             !.in = [world |-> w, detail |-> d, tiles |-> ts, area |-> ar,
                                     confirm |-> cb.confirm,
                                     skip_confirmation |-> cb.skip_confirmation]]
    /\ UNCHANGED <<CombinerVars, geo, gui>>

CcRaise(e) == cc' = [cc EXCEPT !.pc = "error", !.error = e]

\* combine_core.py 405-409
CcValidate ==
    /\ cc.pc = "validate"
    /\ IF cc.in.world \notin CcMappedWorlds THEN CcRaise("ValueError")
       ELSE IF cc.in.detail \notin 0..3 THEN CcRaise("ValueError")
       ELSE cc' = [cc EXCEPT !.pc = "scan"]
    /\ UNCHANGED <<CombinerVars, geo, gui>>

\* combine_core.py 410-436: the regions found and the column and row ranges
CcScan ==
    /\ cc.pc = "scan"
    /\ LET columns == {t[1] : t \in cc.in.tiles}
           rows == {t[2] : t \in cc.in.tiles}
           ar == AreaRegions(cc.in.area, DETAIL_SBPP(cc.in.detail))
       IN  IF columns = {} THEN CcRaise("ValueError")
           ELSE IF cc.in.area # <<>>
           THEN cc' = [cc EXCEPT !.pc = "confirm", !.column_range = <<ar[1], ar[3]>>,
                                 !.row_range = <<ar[2], ar[4]>>]
           ELSE cc' = [cc EXCEPT !.pc = "confirm",
                                 !.column_range = <<SetMin(columns), SetMax(columns)>>,
                                 !.row_range = <<SetMin(rows), SetMax(rows)>>]
    /\ UNCHANGED <<CombinerVars, geo, gui>>

\* the size of the image: TILE_SIZE * len(column_range), TILE_SIZE * len(row_range)
CcSize == <<TILE_SIZE * Len(RangeOf(cc.column_range)), TILE_SIZE * Len(RangeOf(cc.row_range))>>

\* the callback's call, when the callback is one of the caller's
CcAsked == IF CcAsks(cc.in) THEN Append(cc.trace, <<"confirm", CcSize[1], CcSize[2]>>) ELSE cc.trace

\* the confirmation with the answer ignored
CcConfirm_ignored ==
    /\ cc.pc = "confirm"
    /\ cc' = [cc EXCEPT !.pc = "alloc", !.trace = CcAsked]
    /\ UNCHANGED <<CombinerVars, geo, gui>>

\* combine_core.py 438-441: the confirmation; False returns None
CcConfirm ==
    /\ cc.pc = "confirm"
    /\ IF CcAnswer(cc.in)
       THEN cc' = [cc EXCEPT !.pc = "alloc", !.trace = CcAsked]
       ELSE cc' = [cc EXCEPT !.pc = "done", !.trace = CcAsked, !.result = <<>>]
    /\ UNCHANGED <<CombinerVars, geo, gui>>

\* combine_core.py 444-447: Image.new
CcAlloc ==
    /\ cc.pc = "alloc"
    /\ cc' = [cc EXCEPT !.pc = "paste", !.image = Image_new(CcSize),
                        !.trace = Append(@, <<"new", CcSize[1], CcSize[2]>>)]
    /\ UNCHANGED <<CombinerVars, geo, gui>>

\* combine_core.py 450-473: the regions of product(column_range, row_range) that have a
\* file are opened and pasted in that order; the first sets game_zero_in_image
CcPaste ==
    /\ cc.pc = "paste"
    /\ LET regions_iter == Product(RangeOf(cc.column_range), RangeOf(cc.row_range))
           found == SelectSeq(regions_iter, LAMBDA cr : cr \in cc.in.tiles)
           pastes == {TilePaint("full", cr, PasteCoord(cr[1], cr[2], cc.column_range, cc.row_range)) :
                          cr \in SeqSet(found)}
       IN  cc' = [cc EXCEPT !.pc = "finish",
                            !.image = Image_alpha_composite(@, pastes),
                            !.game_zero = IF Len(found) = 0 THEN <<>>
                                          ELSE GameZero(found[1][1], found[1][2],
                                                        cc.column_range, cc.row_range),
                            !.trace = @ \o [k \in 1..Len(found) |-> <<"open", found[k][1], found[k][2]>>]]
    /\ UNCHANGED <<CombinerVars, geo, gui>>

\* combine_core.py 475-523: the assertions, the crop to the area and the background
CcFinish ==
    /\ cc.pc = "finish"
    /\ IF cc.game_zero = <<>> THEN CcRaise("AssertionError")
       ELSE LET mul == DETAIL_SBPP(cc.in.detail)
                tl == GameCoord_to_image_coord(<<cc.in.area[1], cc.in.area[2]>>, cc.game_zero, mul)
                br == GameCoord_to_image_coord(<<cc.in.area[3], cc.in.area[4]>>, cc.game_zero, mul)
                image == IF cc.in.area # <<>>
                         THEN Image_crop(cc.image, <<tl[1], tl[2], br[1], br[2]>>)
                         ELSE cc.image
                zero == IF cc.in.area # <<>>
                        THEN <<cc.game_zero[1] - tl[1], cc.game_zero[2] - tl[2]>>
                        ELSE cc.game_zero
            IN  IF Image_getbbox(image) = <<>> THEN CcRaise("AssertionError")
                ELSE cc' = [cc EXCEPT !.pc = "done", !.image = image, !.game_zero = zero,
                                      !.trace = Append(@, <<"new", image.size[1], image.size[2]>>),
                                      !.result = [size |-> image.size, paints |-> image.paints,
                                                  game_zero |-> zero]]
    /\ UNCHANGED <<CombinerVars, geo, gui>>

\* the call has returned or raised; the Combiner holds nothing of it
CcReturn ==
    /\ cc.pc \in {"done", "error"}
    /\ cc' = CcIdle(IF cc.in.confirm = "default"
                    THEN [in |-> CcArgs(cc.in), result |-> cc.result, error |-> cc.error]
                    ELSE cc.last)
    /\ UNCHANGED <<CombinerVars, geo, gui>>

CoreNext ==
    \/ CcCall
    \/ CcValidate
    \/ CcScan
    \/ CcConfirm
    \/ CcAlloc
    \/ CcPaste
    \/ CcFinish
    \/ CcReturn

CoreSpec == CoreInit /\ [][CoreNext]_vars

----------------------------------------------------------------------------
(* DialogSpec: gui.actions.open_confirm_dialog in a worker thread and
   close_confirm_dialog_callback on the thread that runs the callbacks.  Each
   dearpygui call and each method of EVENT is one step. *)

\* open_confirm_dialog runs in at most MaxWorkers threads at a time (every click on the
\* buttons of open_confirm_dialog_callback and create_image_callback starts a thread, and
\* nothing joins them) and is called at most MaxDialogs times
MaxWorkers == 2
MaxDialogs == 3

Workers == 1..MaxWorkers

Buttons == {"yes-button", "no-button"}

\* gui: worker[t] the statement thread t is about to run in open_confirm_dialog ("blocked"
\* and "woken": inside EVENT.wait(), before and after EVENT.set() notified it) and cb the
\* one of the callback; event the flag of EVENT; shown and user_data the show flag and
\* the user data of the item 'modal-confirm' (created with show=False and no user data,
\* layout.py 145); sender the button whose callback runs; result[t] and ret[t] the local
\* and the return value of thread t's call; clicked[t] the button clicked on the dialog
\* since thread t's call showed it ("" before the click); dialogs the calls made so far
GuiStart ==
    [worker |-> [t \in Workers |-> "idle"], cb |-> "idle", event |-> FALSE, shown |-> FALSE,
     user_data |-> "None", sender |-> "", result |-> [t \in Workers |-> "None"],
     ret |-> [t \in Workers |-> FALSE], clicked |-> [t \in Workers |-> ""], dialogs |-> 0]

DialogInit ==
    /\ self = NewCombiner
    /\ args = NoArgs
    /\ files = {}
    /\ ops = <<>>
    /\ geo = NoGeo
    /\ pc = "idle"
    /\ tiles = {}
    /\ content = "full"
    /\ zoom = 3
    /\ area = <<>>
    /\ crop = NoCrop
    /\ grid_step = 0
    /\ line_alpha = 255
    /\ tile_grid = NoGrid
    /\ world_grid = NoGrid
    /\ canvas_grid = NoGrid
    /\ img = NoImage
    /\ placed = {}
    /\ lines = {}
    /\ error = ""
    /\ cc = NoCc
    /\ gui = GuiStart

\* a thread calls open_confirm_dialog(message): dpg.configure_item('modal-confirm', show=True)
OpenDialog(t) ==
    /\ gui.worker[t] = "idle"
    /\ gui.dialogs < MaxDialogs
    /\ gui' = [gui EXCEPT !.worker[t] = "message", !.shown = TRUE, !.clicked[t] = "",
                          !.dialogs = @ + 1]
    /\ UNCHANGED <<CombinerVars, geo, cc>>

\* dpg.configure_item('modal-confirm-message', default_value=message)
SetMessage(t) ==
    /\ gui.worker[t] = "message"
    /\ gui' = [gui EXCEPT !.worker[t] = "clear"]
    /\ UNCHANGED <<CombinerVars, geo, cc>>

\* the worker's EVENT.clear()
WorkerClear(t) ==
    /\ gui.worker[t] = "clear"
    /\ gui' = [gui EXCEPT !.worker[t] = "wait", !.event = FALSE]
    /\ UNCHANGED <<CombinerVars, geo, cc>>

\* EVENT.wait() is entered: it returns at once when the flag is set, else the thread
\* blocks on the event's condition (threading.Event.wait tests the flag once, under the
\* event's lock)
WorkerWait(t) ==
    /\ gui.worker[t] = "wait"
    /\ gui' = [gui EXCEPT !.worker[t] = IF gui.event THEN "read" ELSE "blocked"]
    /\ UNCHANGED <<CombinerVars, geo, cc>>

\* a thread that EVENT.set() has notified leaves EVENT.wait(), whatever the flag is by then
WorkerWake(t) ==
    /\ gui.worker[t] = "woken"
    /\ gui' = [gui EXCEPT !.worker[t] = "read"]
    /\ UNCHANGED <<CombinerVars, geo, cc>>

\* result = dpg.get_item_user_data('modal-confirm')
WorkerRead(t) ==
    /\ gui.worker[t] = "read"
    /\ gui' = [gui EXCEPT !.worker[t] = "check", !.result[t] = gui.user_data]
    /\ UNCHANGED <<CombinerVars, geo, cc>>

\* raise ValueError if result is not a button, else return result == 'yes-button'
WorkerCheck(t) ==
    /\ gui.worker[t] = "check"
    /\ IF gui.result[t] \notin Buttons
       THEN gui' = [gui EXCEPT !.worker[t] = "raised"]
       ELSE gui' = [gui EXCEPT !.worker[t] = "returned",
                               !.ret[t] = (gui.result[t] = "yes-button")]
    /\ UNCHANGED <<CombinerVars, geo, cc>>

\* the caller goes on, or the thread ends and another one can be started
WorkerDone(t) ==
    /\ gui.worker[t] \in {"returned", "raised"}
    /\ gui' = [gui EXCEPT !.worker[t] = "idle", !.result[t] = "None", !.ret[t] = FALSE]
    /\ UNCHANGED <<CombinerVars, geo, cc>>

\* the calls that have shown the dialog and wait for its click
Waiting == {t \in Workers : gui.worker[t] \in {"message", "clear", "wait", "blocked"}}

\* a click on a button of the shown dialog: its callback starts once the one before it
\* has finished
Click ==
    /\ gui.shown
    /\ gui.cb = "idle"
    /\ \E b \in Buttons :
           gui' = [gui EXCEPT !.cb = "clear", !.sender = b,
                              !.clicked = [t \in Workers |-> IF t \in Waiting THEN b ELSE @[t]]]
    /\ UNCHANGED <<CombinerVars, geo, cc>>

\* the callback's EVENT.clear()
CbClear ==
    /\ gui.cb = "clear"
    /\ gui' = [gui EXCEPT !.cb = "set", !.event = FALSE]
    /\ UNCHANGED <<CombinerVars, geo, cc>>

\* EVENT.set(): the flag is set and every thread blocked in EVENT.wait() is notified
CbSet ==
    /\ gui.cb = "set"
    /\ gui' = [gui EXCEPT !.cb = "hide", !.event = TRUE,
                          !.worker = [t \in Workers |-> IF @[t] = "blocked" THEN "woken" ELSE @[t]]]
    /\ UNCHANGED <<CombinerVars, geo, cc>>

\* dpg.configure_item('modal-confirm', show=False)
CbHide ==
    /\ gui.cb = "hide"
    /\ gui' = [gui EXCEPT !.cb = "store", !.shown = FALSE]
    /\ UNCHANGED <<CombinerVars, geo, cc>>

\* dpg.set_item_user_data('modal-confirm', args.sender)
CbStore ==
    /\ gui.cb = "store"
    /\ gui' = [gui EXCEPT !.cb = "debug", !.user_data = gui.sender]
    /\ UNCHANGED <<CombinerVars, geo, cc>>

\* dpg.set_value('debug-conf-response-text', args.sender); the callback returns
CbDebug ==
    /\ gui.cb = "debug"
    /\ gui' = [gui EXCEPT !.cb = "idle", !.sender = ""]
    /\ UNCHANGED <<CombinerVars, geo, cc>>

WorkerStep(t) ==
    SetMessage(t) \/ WorkerClear(t) \/ WorkerWait(t) \/ WorkerWake(t) \/ WorkerRead(t) \/ WorkerCheck(t)

CbStep == CbClear \/ CbSet \/ CbHide \/ CbStore \/ CbDebug

DialogNext ==
    \/ \E t \in Workers : OpenDialog(t)
    \/ \E t \in Workers : SetMessage(t)
    \/ \E t \in Workers : WorkerClear(t)
    \/ \E t \in Workers : WorkerWait(t)
    \/ \E t \in Workers : WorkerWake(t)
    \/ \E t \in Workers : WorkerRead(t)
    \/ \E t \in Workers : WorkerCheck(t)
    \/ \E t \in Workers : WorkerDone(t)
    \/ Click
    \/ CbClear
    \/ CbSet
    \/ CbHide
    \/ CbStore
    \/ CbDebug

DialogSpec == DialogInit /\ [][DialogNext]_vars

\* every thread is scheduled: a thread that can take its next step takes it.  The
\* clicks and the calls of open_confirm_dialog are the user's and are not forced.
FairDialogSpec == DialogSpec /\ (\A t \in Workers : WF_vars(WorkerStep(t))) /\ WF_vars(CbStep)

----------------------------------------------------------------------------
(* GeoSpec: the operations of geo.Rect, geo.Grid and Color on their own *)

\* rect and origin coordinates lie in -GeoMax..GeoMax, steps in 0..MaxStep
GeoMax == 3
MaxStep == 3

GeoCoords == (0 - GeoMax)..GeoMax

\* <<lo, hi>> with lo <= hi
GeoSpans == {sp \in GeoCoords \X GeoCoords : sp[1] <= sp[2]}

GeoOrigins == {<<0, 0>>, <<0 - 1, 2>>, <<2, 0 - 1>>, <<2, 0>>}

\* spans of non-zero length, for the rects Grid.project divides by
ProjectSpans == {<<lo, lo + w>> : lo \in {0 - GeoMax, 0}, w \in 1..GeoMax}

\* spans for Grid.map: those of ProjectSpans and one of length zero
MapSpans == ProjectSpans \cup {<<1, 1>>}

\* fn of Grid.map: n * k or n // k
MapFns == {[kind |-> "mul", k |-> k] : k \in 1..GeoMax} \cup {[kind |-> "floordiv", k |-> 2]}

FnOf(f) == IF f.kind = "mul" THEN [n \in Int |-> n * f.k] ELSE [n \in Int |-> FloorDiv(n, f.k)]

\* origin= of Grid.map
MapOrigins ==
    {[mode |-> "none", xy |-> <<>>], [mode |-> "keep", xy |-> <<>>],
     [mode |-> "given", xy |-> <<0, 0>>], [mode |-> "given", xy |-> <<5, 0 - 4>>]}

\* the coordinate sets given to Grid.from_steps: at most two coordinates
StepSets ==
    {{}} \cup {{c1, c2} : c1 \in GeoCoords \X GeoCoords, c2 \in GeoCoords \X GeoCoords}

\* channel values around the two ends of 0..255
ColorChannels == {0 - 1, 0, 128, 255, 256}

\* a map is at most MaxTiles tiles wide; world coordinates are taken up to MaxOffset
\* blocks right of the world rect's left edge
MaxTiles == 7
MaxOffset == 64

GeoInput(kind, rect, step, origin, other, coord, radius, center) ==
    [kind |-> kind, rect |-> rect, step |-> step, origin |-> origin, other |-> other,
     coord |-> coord, radius |-> radius, center |-> center]

\* the state before the operation is applied to the input
GeoStart(input) == [op |-> "", in |-> input, out |-> <<>>]

\* the inputs are drawn here:
\*   Grid(rect, step=step, origin=origin);
\*   Rect.from_radius(radius, center), center <<>> for None;
\*   Grid(rect).project(coord, Grid(other)) with coord inside rect
GeoInit ==
    /\ self = NewCombiner
    /\ args = NoArgs
    /\ files = {}
    /\ ops = <<>>
    /\ \/ \E sx \in GeoSpans, sy \in GeoSpans, st \in 0..MaxStep, o \in GeoOrigins :
            geo = GeoStart(GeoInput("grid", <<sx[1], sy[1], sx[2], sy[2]>>, st, o, <<>>, <<>>, 0, <<>>))
       \/ \E r \in (0 - 1)..GeoMax, c \in {<<>>} \cup (((0 - 1)..1) \X ((0 - 1)..1)) :
            geo = GeoStart(GeoInput("radius", <<>>, 0, <<>>, <<>>, <<>>, r, c))
       \/ \E ax \in ProjectSpans, ay \in ProjectSpans, bx \in ProjectSpans, by \in ProjectSpans :
            \E cx \in ax[1]..ax[2], cy \in ay[1]..ay[2] :
                geo = GeoStart(GeoInput("project", <<ax[1], ay[1], ax[2], ay[2]>>, 0, <<0, 0>>,
                                        <<bx[1], by[1], bx[2], by[2]>>, <<cx, cy>>, 0, <<>>))
       \/ \E sx \in ProjectSpans, sy \in ProjectSpans, st \in 0..MaxStep, o \in GeoOrigins :
            \E xy \in {0 - 1, 1, 2}, cs \in {<<>>, <<0>>, <<2>>}, p \in {<<0, 0>>, <<1, 0 - 2>>} :
                geo = GeoStart([kind |-> "frame", rect |-> <<sx[1], sy[1], sx[2], sy[2]>>,
                                step |-> st, origin |-> o, xy |-> xy, copy_step |-> cs, to |-> p])
       \/ \E sx \in MapSpans, sy \in MapSpans, st \in {0, 2}, o \in GeoOrigins :
            \E f \in MapFns, no \in MapOrigins :
                geo = GeoStart([kind |-> "map", rect |-> <<sx[1], sy[1], sx[2], sy[2]>>,
                                step |-> st, origin |-> o, fn |-> f, new_origin |-> no])
       \/ \E S \in StepSets :
            geo = GeoStart([kind |-> "from_steps", source_steps |-> S])
       \/ \E r \in ColorChannels, g \in ColorChannels, b \in ColorChannels :
            \E a \in {<<>>} \cup {<<ch>> : ch \in ColorChannels} :
                geo = GeoStart([kind |-> "color", red |-> r, green |-> g, blue |-> b, alpha |-> a])
       \/ \E c1 \in {0 - (MaxTiles \div 2), 0}, n \in 2..MaxTiles, z \in Zooms :
            \E d \in 0..MaxOffset, first \in {"top_left", "bottom_right"}, below \in {0, 1} :
                geo = GeoStart([kind |-> "world", rect |-> <<c1, 0 - 1, c1 + n - 1, 0>>,
                                zoom |-> z, first |-> first,
                                coord |-> <<c1 * TileBlocks(z) + d,
                                            (below - 1) * TileBlocks(z) + below * d>>])
    /\ pc = "idle"
    /\ tiles = {}
    /\ content = "full"
    /\ zoom = 3
    /\ area = <<>>
    /\ crop = NoCrop
    /\ grid_step = 0
    /\ line_alpha = 255
    /\ tile_grid = NoGrid
    /\ world_grid = NoGrid
    /\ canvas_grid = NoGrid
    /\ img = NoImage
    /\ placed = {}
    /\ lines = {}
    /\ error = ""
    /\ cc = NoCc
    /\ gui = NoGui

\* steps_x, steps_y, steps_count and list(iter_steps()) of a grid
GridSteps ==
    /\ geo.op = ""
    /\ geo.in.kind = "grid"
    /\ LET g == Grid(geo.in.rect, geo.in.step, geo.in.origin)
       IN  geo' = [geo EXCEPT !.op = "steps",
                              !.out = [steps_x |-> steps_x(g), steps_y |-> steps_y(g),
                                       steps_count |-> steps_count(g),
                                       iter_steps |-> iter_steps(g)]]
    /\ UNCHANGED <<CombinerVars, cc, gui>>

\* Rect.from_radius, and the size and center of the rect it returns
FromRadius ==
    /\ geo.op = ""
    /\ geo.in.kind = "radius"
    /\ LET res == Rect_from_radius(geo.in.radius, geo.in.center)
       IN  geo' = [geo EXCEPT !.op = "from_radius",
                              !.out = IF res.raises # ""
                                      THEN [raises |-> res.raises, rect |-> <<>>,
                                            size |-> <<>>, center |-> <<>>]
                                      ELSE [raises |-> "", rect |-> res.rect,
                                            size |-> Rect_size(res.rect),
                                            center |-> Rect_center(res.rect)]]
    /\ UNCHANGED <<CombinerVars, cc, gui>>

\* a.project(coord, b) and the projection of the result back: b.project(there, a)
ProjectRoundTrip ==
    /\ geo.op = ""
    /\ geo.in.kind = "project"
    /\ LET a == Grid(geo.in.rect, 0, <<0, 0>>)
           b == Grid(geo.in.other, 0, <<0, 0>>)
           there == Grid_project(a, geo.in.coord, b)
       IN  geo' = [geo EXCEPT !.op = "project",
                              !.out = [there |-> there, back |-> Grid_project(b, there, a)]]
    /\ UNCHANGED <<CombinerVars, cc, gui>>

\* g.resize(xy), g.copy(step=...) and g.translate_to(p)
GridFrame ==
    /\ geo.op = ""
    /\ geo.in.kind = "frame"
    /\ LET g == Grid(geo.in.rect, geo.in.step, geo.in.origin)
           st == IF geo.in.copy_step = <<>> THEN g.step ELSE geo.in.copy_step[1]
       IN  geo' = [geo EXCEPT !.op = "frame",
                              !.out = [resize |-> Grid_resize(g, geo.in.xy),
                                       copy |-> Grid_copy(g, st),
                                       translate_to |-> Grid_translate_to(g, geo.in.to)]]
    /\ UNCHANGED <<CombinerVars, cc, gui>>

\* g.map(fn, origin=...)
MapGrid ==
    /\ geo.op = ""
    /\ geo.in.kind = "map"
    /\ LET g == Grid(geo.in.rect, geo.in.step, geo.in.origin)
       IN  geo' = [geo EXCEPT !.op = "map",
                              !.out = IF geo.in.new_origin.mode = "none" /\ Grid_map_raises(g)
                                      THEN [raises |-> "ZeroDivisionError", grid |-> NoGrid]
                                      ELSE [raises |-> "",
                                            grid |-> Grid_map_origin(FnOf(geo.in.fn), g,
                                                                     geo.in.new_origin)]]
    /\ UNCHANGED <<CombinerVars, cc, gui>>

\* Grid.from_steps(source_steps)
FromSteps ==
    /\ geo.op = ""
    /\ geo.in.kind = "from_steps"
    /\ geo' = [geo EXCEPT !.op = "from_steps",
                          !.out = IF Grid_from_steps_raises(geo.in.source_steps)
                                  THEN [raises |-> "ValueError", grid |-> NoGrid]
                                  ELSE [raises |-> "",
                                        grid |-> Grid_from_steps(geo.in.source_steps, 0)]]
    /\ UNCHANGED <<CombinerVars, cc, gui>>

\* util.Color(red, green, blue[, alpha]) and helper.Color of the same arguments
NewColor ==
    /\ geo.op = ""
    /\ geo.in.kind = "color"
    /\ LET a == IF geo.in.alpha = <<>> THEN RGB_CHANNEL_MAX ELSE geo.in.alpha[1]
           made == Color(geo.in.red, geo.in.green, geo.in.blue, a)
       IN  geo' = [geo EXCEPT !.op = "color",
                              !.out = [util |-> IF Color_raises(geo.in.red, geo.in.green, geo.in.blue, a)
                                                THEN [raises |-> "ValueError", channels |-> <<>>]
                                                ELSE [raises |-> "", channels |-> made],
                                       helper |-> IF helper_Color_raises(geo.in.red, geo.in.green,
                                                                         geo.in.blue, a)
                                                  THEN [raises |-> "ValueError", channels |-> <<>>]
                                                  ELSE [raises |-> "", channels |-> made]]]
    /\ UNCHANGED <<CombinerVars, cc, gui>>

\* one world coordinate brought to the image by the two pipelines over the same tile
\* bounds: core.py's world_grid.project(coord, canvas_grid), and combine_core.py's
\* GameCoord(coord).to_image_coord(image) with game_zero from the first pasted region
WorldToImage ==
    /\ geo.op = ""
    /\ geo.in.kind = "world"
    /\ LET r  == geo.in.rect
           tg == Grid(r, 1, <<0, 0>>)
           wg == WorldGridOf(tg, geo.in.zoom, 0)
           cg == CanvasGridOf(tg)
           column_range == <<r[1], r[3]>>
           row_range == <<r[2], r[4]>>
           c  == IF geo.in.first = "top_left" THEN r[1] ELSE r[3]
           rw == IF geo.in.first = "top_left" THEN r[2] ELSE r[4]
       IN  geo' = [geo EXCEPT !.op = "world",
                              !.out = [world_rect |-> wg.rect, canvas_rect |-> cg.rect,
                                       project |-> Grid_project(wg, geo.in.coord, cg),
                                       game_zero |-> GameZero(c, rw, column_range, row_range),
                                       image_coord |->
                                           GameCoord_to_image_coord(
                                               geo.in.coord,
                                               GameZero(c, rw, column_range, row_range),
                                               DETAIL_SBPP(geo.in.zoom))]]
    /\ UNCHANGED <<CombinerVars, cc, gui>>

GeoNext ==
    \/ GridSteps
    \/ FromRadius
    \/ ProjectRoundTrip
    \/ GridFrame
    \/ MapGrid
    \/ FromSteps
    \/ NewColor
    \/ WorldToImage

GeoSpec == GeoInit /\ [][GeoNext]_vars

----------------------------------------------------------------------------
(* Properties *)

Terminal == pc \in {"done", "error"}

\* the placement loop has run (to its end, or to the ValueError of the strict zip)
AfterPlacement ==
    \/ pc \in {"overlay", "areacrop", "crop", "done"}
    \/ pc = "error" /\ error \in {"ValueError", "TypeError"}

\* the overlay has been drawn
AfterOverlay ==
    \/ pc \in {"areacrop", "crop", "done"}
    \/ pc = "error" /\ error = "TypeError"

FileCols == {t[1] : t \in tiles}
FileRows == {t[2] : t \in tiles}

InRect(idx, r) == r[1] <= idx[1] /\ idx[1] <= r[3] /\ r[2] <= idx[2] /\ idx[2] <= r[4]

\* the canvas position of the cell of tile index idx in the tile grid
CellPos(idx, tg) ==
    <<SQMAP_TILE_SIZE * (idx[1] - tg.rect[1]), SQMAP_TILE_SIZE * (idx[2] - tg.rect[2])>>

\* the indices of the tile-grid rect
RectIndices(r) == (r[1]..r[3]) \X (r[2]..r[4])

\* the multiples of s in lo..hi
Multiples(lo, hi, s) == {k * s : k \in CeilDiv(lo, s)..FloorDiv(hi, s)}

\* C1: with area=None and crop=None, combine on tile files spanning N consecutive columns
\* and M consecutive rows returns an image of size (N*T, M*T), T = 512; (T, T) for a
\* single tile.
C1_SizeIsTileSpan ==
    (pc = "done" /\ area = <<>> /\ crop.kind = "none") =>
        img.size = <<(SetMax(FileCols) - SetMin(FileCols) + 1) * SQMAP_TILE_SIZE,
                     (SetMax(FileRows) - SetMin(FileRows) + 1) * SQMAP_TILE_SIZE>>

\* C2: once the placement loop has run, the alpha_composite calls made are exactly one per
\* tile file whose index lies inside the tile-grid rect, at canvas pixel
\* (T*(c - x1), T*(r - y1)).
C2_TilesAtTheirCell ==
    AfterPlacement =>
        placed = {<<idx, CellPos(idx, tile_grid)>> : idx \in {t \in tiles : InRect(t, tile_grid.rect)}}

\* C3: with an area whose corners are multiples of the blocks per pixel b, and crop=None,
\* combine returns an image of size ((x2 - x1)/b, (y2 - y1)/b) whose pixel (0, 0) shows
\* world block (area.x1, area.y1): every tile on it has its own pixel (0, 0) at the image
\* position of the tile's first block.
C3_AreaRegion ==
    LET b == SQMAP_ZOOM_BPP(zoom)
    IN  (Terminal /\ tiles # {} /\ area # <<>> /\ crop.kind = "none"
            /\ \A i \in 1..4 : PyMod(area[i], b) = 0) =>
        /\ pc = "done"
        /\ img.size = <<(area[3] - area[1]) \div b, (area[4] - area[2]) \div b>>
        /\ \A p \in img.paints : p.kind = "tile" =>
            /\ area[1] + p.ox * b = p.c * TileBlocks(zoom)
            /\ area[2] + p.oy * b = p.r * TileBlocks(zoom)

\* C4: on a directory that holds at least one tile for the zoom, combine returns an image
\* without raising, for every zoom, area and crop.
C4_NeverRaises ==
    (Terminal /\ tiles # {}) => pc = "done"

\* C5: a tile-index rect that is degenerate in one or in both axes has its far corner
\* expanded on the degenerate axis, so that the grids are derived without error and the
\* canvas has non-zero width and height.
C5_DegenerateExpanded ==
    (pc \notin {"idle", "validate", "scan", "grid"}
        /\ error \notin {"NotADirectoryError", "IndexError", "CombineError"}) =>
        /\ Rect_width(tile_grid.rect) > 0
        /\ Rect_height(tile_grid.rect) > 0
        /\ error # "ZeroDivisionError"

\* C6: with crop=(w, h), a call that reaches the crop step returns an image of exactly
\* w x h pixels (the size of the rect Rect.from_size builds around the image centre).
C6_FixedCropSize ==
    (Terminal /\ crop.kind = "size" /\ error \in {"", "TypeError"}) =>
        /\ pc = "done"
        /\ img.size = Rect_size(Rect_from_size(crop.w, crop.h, <<0, 0>>))

\* C7: a tile index inside the tile grid that has no file is not an error: combine
\* completes, and nothing is composited on the T x T canvas cell of that index.
C7_MissingTileIsBackground ==
    LET missing == {idx \in RectIndices(tile_grid.rect) : idx \notin tiles}
    IN  (Terminal /\ tiles # {} /\ crop.kind # "size" /\ missing # {}) =>
        /\ pc = "done"
        /\ \A idx \in missing : \A pr \in placed : pr[2] # CellPos(idx, tile_grid)

\* C8: with area=None and crop='auto', when the stitched image has a non-transparent
\* pixel, the returned image is cut to the non-transparent box: its first and last column
\* and its first and last row each hold a non-transparent pixel.
C8_AutoCropTight ==
    (pc = "done" /\ area = <<>> /\ crop.kind = "auto" /\ img.paints # {}) =>
        /\ \E p \in img.paints : p.x1 = 0
        /\ \E p \in img.paints : p.y1 = 0
        /\ \E p \in img.paints : p.x2 = img.size[1]
        /\ \E p \in img.paints : p.y2 = img.size[2]

\* a call with area=None and crop='auto' returned an image smaller than the canvas
C8_Witness ==
    /\ pc = "done" /\ area = <<>> /\ crop.kind = "auto" /\ img.paints # {}
    /\ img.size # Rect_size(canvas_grid.rect)

\* C9: the crop step with crop='auto' on a fully transparent image raises no error and
\* leaves the image as it is.
C9_BlankAutoCropKept ==
    [][(pc = "crop" /\ crop.kind = "auto" /\ img.paints = {}) => (pc' = "done" /\ img' = img)]_vars

\* a call with crop='auto' returned a fully transparent image
C9_Witness ==
    pc = "done" /\ crop.kind = "auto" /\ img.paints = {} /\ img.size[1] > 0 /\ img.size[2] > 0

\* C10: with overlay step s > 0 and a grid-line alpha > 0, the lines drawn are one vertical
\* line at column (wx - world_rect.x1)/b and one horizontal line at row
\* (wy - world_rect.y1)/b for the multiples wx, wy of s inside the world rect, and no other.
C10_LinesAtSteps ==
    LET b == SQMAP_ZOOM_BPP(zoom)
        r == world_grid.rect
    IN  (AfterOverlay /\ grid_step > 0 /\ line_alpha > 0) =>
        lines = {<<"v", TruncDiv(wx - r[1], b)>> : wx \in Multiples(r[1], r[3], grid_step)}
                \cup {<<"h", TruncDiv(wy - r[2], b)>> : wy \in Multiples(r[2], r[4], grid_step)}

\* the values o + k*s, k an integer, inside lo..hi
AlignedIn(lo, hi, s, o) == {v \in lo..hi : PyMod(v - o, s) = 0}

\* C11: for a Grid with step > 0, steps_x is exactly the set of the values
\* origin.x + k*step that lie in [rect.x1, rect.x2], and steps_y the same for y.
C11_StepsAlignedInRect ==
    (geo.op = "steps" /\ geo.in.step > 0) =>
        /\ SeqSet(geo.out.steps_x)
             = AlignedIn(geo.in.rect[1], geo.in.rect[3], geo.in.step, geo.in.origin[1])
        /\ SeqSet(geo.out.steps_y)
             = AlignedIn(geo.in.rect[2], geo.in.rect[4], geo.in.step, geo.in.origin[2])

\* C12: for a Grid with step > 0 whose origin lies within the rect bounds, iter_steps()
\* yields the point equal to origin.
C12_OriginYielded ==
    (geo.op = "steps" /\ geo.in.step > 0 /\ InRect(geo.in.origin, geo.in.rect)) =>
        geo.in.origin \in SeqSet(geo.out.iter_steps)

\* C13: for every Grid, len(steps_x) * len(steps_y), steps_count and the number of
\* coordinates iter_steps() yields are equal, and all of them are 0 when step is 0.
C13_StepCountsAgree ==
    geo.op = "steps" =>
        /\ Len(geo.out.steps_x) * Len(geo.out.steps_y) = geo.out.steps_count
        /\ geo.out.steps_count = Len(geo.out.iter_steps)
        /\ geo.in.step = 0 =>
                Len(geo.out.steps_x) = 0 /\ Len(geo.out.steps_y) = 0 /\ geo.out.steps_count = 0

\* the steps of a grid with more steps on one axis than on the other were counted
C13_Witness ==
    /\ geo.op = "steps" /\ geo.in.step > 1
    /\ Len(geo.out.steps_x) >= 2
    /\ Len(geo.out.steps_y) > Len(geo.out.steps_x)
    /\ Len(geo.out.iter_steps) = geo.out.steps_count

\* C14: Rect.from_radius(r, center) with r > 0 returns (cx - r, cy - r, cx + r, cy + r),
\* a rect of width and height 2r whose center is center ((0, 0) for None); with r <= 0
\* it raises ValueError.
C14_FromRadius ==
    geo.op = "from_radius" =>
        LET r == geo.in.radius
            c == IF geo.in.center = <<>> THEN <<0, 0>> ELSE geo.in.center
        IN  IF r > 0
            THEN /\ geo.out.raises = ""
                 /\ geo.out.rect = <<c[1] - r, c[2] - r, c[1] + r, c[2] + r>>
                 /\ geo.out.size = <<2 * r, 2 * r>>
                 /\ geo.out.center = c
            ELSE geo.out.raises = "ValueError"

\* from_radius returned a rect around a center other than (0, 0)
C14_Witness ==
    /\ geo.op = "from_radius" /\ geo.in.radius > 1
    /\ geo.in.center # <<>> /\ geo.in.center # <<0, 0>>
    /\ geo.out.raises = "" /\ geo.out.center = geo.in.center


\* the round trip on one axis: c the coordinate, back the result, wa and wb the sizes of
\* the two rects
RoundTripWithin(c, back, wa, wb) ==
    IF PyMod(wb, wa) = 0 THEN back = c ELSE Abs(back - c) < CeilDiv(wa, wb)

\* C15: for grids A and B with non-degenerate rects and a coordinate c inside A's rect,
\* B.project(A.project(c, B), A) is exactly c when B's size is an integer multiple of
\* A's on the axis, and otherwise differs from c by less than ceil(size_A / size_B).
C15_ProjectRoundTrip ==
    geo.op = "project" =>
        /\ RoundTripWithin(geo.in.coord[1], geo.out.back[1],
                           Rect_width(geo.in.rect), Rect_width(geo.in.other))
        /\ RoundTripWithin(geo.in.coord[2], geo.out.back[2],
                           Rect_height(geo.in.rect), Rect_height(geo.in.other))

\* the entry check of combine has run
AfterValidate == pc \notin {"idle", "validate"}

\* the scan of the tile directory has run
AfterScan == AfterValidate /\ pc # "scan" /\ error # "NotADirectoryError"

\* C16: combine raises NotADirectoryError when world (joined to tiles_dir when a str,
\* as it is when a Path) is not an existing directory, before any file is scanned and
\* before the canvas is allocated; and for no other world.
C16_NotADirectory ==
    LET resolved == IF args.world.is_path THEN args.world.parts
                    ELSE self.tiles_dir \o args.world.parts
    IN  AfterValidate =>
            /\ (error = "NotADirectoryError") <=> (resolved \notin ExistingDirs)
            /\ error = "NotADirectoryError" =>
                    /\ pc = "error"
                    /\ files = {} /\ tiles = {} /\ ops = <<>>
                    /\ img = NoImage /\ canvas_grid = NoGrid

\* a call with a Path that is no directory as it is, but would be one under tiles_dir,
\* raised NotADirectoryError
C16_Witness ==
    /\ pc = "error" /\ error = "NotADirectoryError"
    /\ args.world.is_path
    /\ self.tiles_dir \o args.world.parts \in ExistingDirs

\* the entries of the scanned directory that are tile files: regular files with the
\* extension asked for and a name holding "{col}_{row}"
TileFilesFound == {e \in Globbed(files, args.tile_ext) : FirstMatch(e.stem) # <<>>}

\* C17: when the scan finds zero tile files, combine raises CombineError, and no canvas
\* has been allocated.
C17_NoTilesIsCombineError ==
    (AfterScan /\ TileFilesFound = {}) =>
        /\ pc = "error" /\ error = "CombineError"
        /\ img = NoImage /\ canvas_grid = NoGrid

\* C18: the tile map holds exactly the files of the directory whose name matches
\* "{col}_{row}", keyed by (col, row); a file whose name does not match is left out and
\* raises nothing.
C18_TileMapIsMatchingFiles ==
    AfterScan =>
        /\ error # "IndexError"
        /\ tiles = {FirstMatch(e.stem) : e \in TileFilesFound}

\* C19: a call of combine leaves the fields of the Combiner and the caller's arguments as
\* they were, whether it returns or raises and whatever it overrides, and between calls
\* nothing of the last call is left.
C19_CombinerUnchanged ==
    /\ [][/\ self' = self
          /\ (pc # "idle" /\ pc' # "idle") => args' = args]_vars
    /\ [](pc = "idle" =>
            /\ self = NewCombiner /\ args = NoArgs /\ files = {} /\ ops = <<>>
            /\ tiles = {} /\ grid_step = 0 /\ line_alpha = 255
            /\ tile_grid = NoGrid /\ world_grid = NoGrid /\ canvas_grid = NoGrid
            /\ img = NoImage /\ placed = {} /\ lines = {} /\ error = "")

\* a call that overrode the grid step drew its overlay with that step and returned
C19_Witness ==
    /\ pc = "done" /\ args.grid_step # <<>>
    /\ grid_step # self.grid_step /\ world_grid.step = grid_step /\ lines # {}

\* the steps of combine that touch map_img, in the order of the code
StepOrder == <<"place", "overlay", "areacrop", "crop">>

StepRank(op) == CHOOSE i \in 1..Len(StepOrder) : StepOrder[i] = op

\* C20: within one call the tile composites come before the overlay, the overlay before
\* the crop to the area, and that before the fixed-size or 'auto' crop.
C20_StepsInOrder ==
    /\ \A i, j \in 1..Len(ops) : i < j => StepRank(ops[i]) < StepRank(ops[j])
    /\ \A i \in 1..Len(ops) :
            /\ ops[i] = "overlay" => "place" \in SeqSet(ops)
            /\ ops[i] \in {"areacrop", "crop"} => "overlay" \in SeqSet(ops)

\* a call composited tiles, drew lines, cropped to its area and cropped to the content
C20_Witness ==
    /\ pc = "done" /\ ops = StepOrder
    /\ placed # {} /\ lines # {}

\* the Grid given to the operation of a "frame" or "map" input
InputGrid == Grid(geo.in.rect, geo.in.step, geo.in.origin)

\* C21: Grid.resize(xy) and Grid.copy(step=s) return a Grid with the original's origin and
\* step (copy with step s when s is given) and only the rect transformed; Grid.translate_to(p)
\* keeps the step and shifts the origin by the offset it shifts the rect by.
C21_FrameCarried ==
    geo.op = "frame" =>
        LET g  == InputGrid
            st == IF geo.in.copy_step = <<>> THEN g.step ELSE geo.in.copy_step[1]
            p  == geo.in.to
        IN  /\ geo.out.resize = Grid(<<g.rect[1], g.rect[2], g.rect[3] + geo.in.xy, g.rect[4] + geo.in.xy>>,
                                     g.step, g.origin)
            /\ geo.out.copy = Grid(g.rect, st, g.origin)
            /\ geo.out.translate_to =
                   Grid(<<p[1], p[2], p[1] + Rect_width(g.rect), p[2] + Rect_height(g.rect)>>, g.step,
                        <<g.origin[1] + (p[1] - g.rect[1]), g.origin[2] + (p[2] - g.rect[2])>>)

\* C22: Grid.map(fn, origin=...) returns a Grid whose rect is fn applied to x1, y1, x2, y2
\* and whose step is unchanged; with origin='keep' its origin is the original's, with an
\* explicit origin it is that origin, and with origin=None on a non-degenerate rect and
\* fn = n * k, k > 0, it is k times the original's origin.
C22_MapOrigin ==
    (geo.op = "map" /\ geo.out.raises = "") =>
        LET g  == InputGrid
            fn == FnOf(geo.in.fn)
            no == geo.in.new_origin
        IN  /\ geo.out.grid.rect = <<fn[g.rect[1]], fn[g.rect[2]], fn[g.rect[3]], fn[g.rect[4]]>>
            /\ geo.out.grid.step = g.step
            /\ no.mode = "keep" => geo.out.grid.origin = g.origin
            /\ no.mode = "given" => geo.out.grid.origin = no.xy
            /\ (no.mode = "none" /\ geo.in.fn.kind = "mul") =>
                   geo.out.grid.origin = <<geo.in.fn.k * g.origin[1], geo.in.fn.k * g.origin[2]>>

\* a grid with its top-left corner and its origin off (0, 0) was scaled by k > 1 with
\* origin=None
C22_Witness ==
    /\ geo.op = "map" /\ geo.out.raises = ""
    /\ geo.in.new_origin.mode = "none" /\ geo.in.fn.kind = "mul" /\ geo.in.fn.k > 1
    /\ geo.in.rect[1] # 0 /\ geo.in.origin = <<0 - 1, 2>>
    /\ geo.out.grid.origin = <<0 - geo.in.fn.k, 2 * geo.in.fn.k>>

\* C23: Grid.from_steps(S) for a non-empty S returns a Grid whose rect is (min col, min row,
\* max col, max row) of S, and raises ValueError for an empty S.
C23_FromStepsBounds ==
    geo.op = "from_steps" =>
        LET S == geo.in.source_steps
        IN  IF S = {} THEN geo.out.raises = "ValueError"
            ELSE /\ geo.out.raises = ""
                 /\ geo.out.grid.rect = <<SetMin({c[1] : c \in S}), SetMin({c[2] : c \in S}),
                                          SetMax({c[1] : c \in S}), SetMax({c[2] : c \in S})>>

\* C24: Color(red, green, blue, alpha) raises ValueError when a channel is below 0 or above
\* 255 and otherwise stores the four channels unchanged, in util.py and in helper.py.
C24_ColorChannels ==
    geo.op = "color" =>
        LET a   == IF geo.in.alpha = <<>> THEN 255 ELSE geo.in.alpha[1]
            chs == <<geo.in.red, geo.in.green, geo.in.blue, a>>
            bad == \E i \in 1..4 : chs[i] < 0 \/ chs[i] > 255
        IN  \A made \in {geo.out.util, geo.out.helper} :
                IF bad THEN made.raises = "ValueError"
                ELSE made.raises = "" /\ made.channels = chs

\* other.top_left + trunc((c - self.top_left) * other.size / self.size) on one axis
ProjectClaimed(c, a1, a2, b1, b2) == b1 + TruncDiv((c - a1) * (b2 - b1), a2 - a1)

\* C25: Grid.project(c, other) on non-degenerate rects returns, per axis,
\* other.top_left + trunc((c - self.top_left) * other.size / self.size), truncating toward
\* zero; it maps the top-left corner to the top-left corner and the bottom-right corner to
\* the bottom-right corner.
C25_ProjectFormula ==
    /\ geo.op = "project" =>
           LET a == geo.in.rect
               b == geo.in.other
           IN  /\ geo.out.there = <<ProjectClaimed(geo.in.coord[1], a[1], a[3], b[1], b[3]),
                                    ProjectClaimed(geo.in.coord[2], a[2], a[4], b[2], b[4])>>
               /\ geo.in.coord = <<a[1], a[2]>> => geo.out.there = <<b[1], b[2]>>
               /\ geo.in.coord = <<a[3], a[4]>> => geo.out.there = <<b[3], b[4]>>
    /\ geo.op = "world" =>
           LET a == geo.out.world_rect
               b == geo.out.canvas_rect
           IN  geo.out.project = <<ProjectClaimed(geo.in.coord[1], a[1], a[3], b[1], b[3]),
                                   ProjectClaimed(geo.in.coord[2], a[2], a[4], b[2], b[4])>>

\* C29: whenever combine has derived its grids, tile_grid.iter_steps() and
\* canvas_grid.resize(-T).iter_steps() have the same length, and the k-th canvas coordinate
\* is T times the offset of the k-th tile index from the tile rect's top-left corner.
C29_ZipAligned ==
    (pc = "place" \/ AfterPlacement) =>
        LET rs == RegionSteps(tile_grid)
            cs == ImgCoordSteps(canvas_grid)
        IN  /\ Len(rs) = Len(cs)
            /\ \A k \in 1..Len(rs) :
                   cs[k] = <<SQMAP_TILE_SIZE * (rs[k][1] - tile_grid.rect[1]),
                             SQMAP_TILE_SIZE * (rs[k][2] - tile_grid.rect[2])>>

\* C30: over the same tile bounds and zoom, for a world coordinate g inside the world rect,
\* core.py's world_grid.project(g, canvas_grid) equals combine_core.py's
\* GameCoord(g).to_image_coord(image), game_zero + g // blocks-per-pixel.
C30_SameImageCoord ==
    geo.op = "world" => geo.out.project = geo.out.image_coord

\* the calls of Image.new and Image.open in the trace
CcWork == {i \in 1..Len(cc.trace) : cc.trace[i][1] \in {"new", "open"}}

\* C26: in combine_core.Combiner.combine the caller's callback is called with the size
\* estimate before the canvas is allocated and before any tile is opened; when it returns
\* False combine returns None with no canvas allocated and no tile opened; when it returns
\* True the outcome is the one of the same call with the default callback.
C26_ConfirmFirst ==
    /\ (cc.pc # "off" /\ cc.pc # "idle" /\ CcAsks(cc.in) /\ CcWork # {}) =>
           /\ cc.trace[1][1] = "confirm"
           /\ \E i \in CcWork : cc.trace[i] = <<"new", cc.trace[1][2], cc.trace[1][3]>>
                                /\ \A j \in CcWork : i <= j
    /\ (cc.pc \in {"done", "error"} /\ CcAsks(cc.in) /\ cc.in.confirm = "no"
            /\ Len(cc.trace) > 0) =>
           cc.pc = "done" /\ cc.result = <<>> /\ CcWork = {}
    /\ (cc.pc \in {"done", "error"} /\ cc.in.confirm = "yes" /\ cc.last.in = CcArgs(cc.in)) =>
           cc.result = cc.last.result /\ cc.error = cc.last.error

\* a call confirmed by the caller's callback returned the image that the same call had
\* returned with the default callback, after opening tiles
C26_Witness ==
    /\ cc.pc = "done" /\ cc.in.confirm = "yes" /\ cc.last.in = CcArgs(cc.in)
    /\ cc.result # <<>> /\ cc.result = cc.last.result
    /\ Len(cc.trace) >= 4 /\ cc.trace[1][1] = "confirm" /\ cc.trace[3][1] = "open"

\* C27: gui.actions.open_confirm_dialog returns True exactly when the button clicked on
\* its dialog was 'yes-button' and False when it was 'no-button', under every interleaving
\* with close_confirm_dialog_callback: the response it reads is the one of this dialog's
\* click, never an unset or an earlier one, and it never raises ValueError.
C27_DialogAnswer ==
    \A t \in Workers :
        /\ gui.worker[t] # "raised"
        /\ gui.worker[t] = "check" => gui.result[t] = gui.clicked[t]
        /\ gui.worker[t] = "returned" =>
               (gui.clicked[t] \in Buttons /\ gui.ret[t] = (gui.clicked[t] = "yes-button"))

\* C28: once open_confirm_dialog has shown the dialog, a click on Yes or No leads to the
\* call returning (or raising): the worker is not left blocked in EVENT.wait().
C28_ClickReturns ==
    \A t \in Workers :
        (t \in Waiting /\ gui.clicked[t] \in Buttons)
            ~> (gui.worker[t] \in {"returned", "raised"})

====
